---------------------------- MODULE Spec2Model ----------------------------
(***************************************************************************)
(* A model of videoapp.py: the "Load Video" handler of the Streamlit       *)
(* script and the functions it calls (extract_metadata, save_metadata_to_db,*)
(* load_db, extract_m3u8_url, extract_audio_segment,                        *)
(* transcribe_and_translate, download_video).                               *)
(*                                                                          *)
(* Strings are sequences of symbols.  A symbol stands for one character     *)
(* class that the code's regular expressions and string methods tell       *)
(* apart:                                                                   *)
(*   "k" / "K"  one of the words src, url, link (lower / upper case)        *)
(*   ":" "="    themselves            "q"  a quote character, ' or "        *)
(*   "."        a dot                 "m"  the letters m3u8, lower case     *)
(*   "M"        the letters m3u8 with an upper-case letter among them       *)
(*   "h"        the letters http      "f"  the letters of another scheme    *)
(*   "/"        a slash               " "  a whitespace character           *)
(*   "<"        markup between two blocks of a document (a tag)             *)
(*   "A"        the author marker     "s"  the full-width colon             *)
(*   "d"        a digit               "t"  the relative-day marker          *)
(*   "D"        the date-label marker                                       *)
(*   any other symbol is a character none of the patterns mentions.         *)
(***************************************************************************)
EXTENDS Integers, Sequences, FiniteSets, TLC

VARIABLES
    pc,               \* position of the script run ("idle" between two runs)
    video_url,        \* st.text_input value of the current run
    meta_resp,        \* response of the fetch of extract_metadata
    metadata,         \* result of extract_metadata
    db,               \* rows of the videos table of st.session_state.db_conn
    df,               \* result of load_db
    selected_row,     \* df.iloc[-1]
    m3u8_resp,        \* response of the fetch of extract_m3u8_url
    m3u8_url,         \* result of extract_m3u8_url
    audio_file,       \* result of extract_audio_segment
    files,            \* temporary files present on disk
    heard,            \* result["text"] of the transcription
    tr_fault,         \* the call of transcribe_and_translate that raised
    captions,         \* first component of transcribe_and_translate's result
    transcribed_text, \* second component
    translated_text,  \* third component
    shown,            \* the caption table the run has displayed
    reports,          \* st.error / st.warning / st.info / st.success of the run
    trace,            \* the stages the run has invoked, in order
    failed,           \* the stages of the run that failed
    runs              \* number of runs started by a click on "Load Video"

vars == <<pc, video_url, meta_resp, metadata, db, df, selected_row, m3u8_resp,
          m3u8_url, audio_file, files, heard, tr_fault, captions,
          transcribed_text, translated_text, shown, reports, trace, failed,
          runs>>

(***************************************************************************)
(* Bounds of the model.                                                    *)
(***************************************************************************)
MaxRuns == 2        \* clicks on "Load Video" in one session
MaxBlocks == 2      \* blocks (script elements, other markup) of a document
MaxTextLen == 4     \* characters of a transcribed text

(***************************************************************************)
(* Python values.                                                          *)
(***************************************************************************)
None == <<"None">>
NoneRow == [none |-> TRUE]

Min(S) == CHOOSE x \in S : \A y \in S : x <= y

IsWs(c) == c = " "

\* str.startswith('http')
StartsWithHttp(s) == Len(s) >= 1 /\ s[1] = "h"

\* str.lstrip('/')
RECURSIVE LStripSlash(_)
LStripSlash(s) ==
    IF s # <<>> /\ Head(s) = "/" THEN LStripSlash(Tail(s)) ELSE s

\* str.strip()
RECURSIVE LStrip(_)
LStrip(s) == IF s # <<>> /\ IsWs(Head(s)) THEN LStrip(Tail(s)) ELSE s

RECURSIVE RStrip(_)
RStrip(s) ==
    IF s # <<>> /\ IsWs(s[Len(s)]) THEN RStrip(SubSeq(s, 1, Len(s) - 1)) ELSE s

Strip(s) == RStrip(LStrip(s))

\* str.split('/'): the segments between the slashes, empty ones included
RECURSIVE SplitSlashAcc(_, _, _)
SplitSlashAcc(s, cur, acc) ==
    IF s = <<>> THEN Append(acc, cur)
    ELSE IF Head(s) = "/"
         THEN SplitSlashAcc(Tail(s), <<>>, Append(acc, cur))
         ELSE SplitSlashAcc(Tail(s), Append(cur, Head(s)), acc)

SplitSlash(s) == SplitSlashAcc(s, <<>>, <<>>)

\* '/'.join(segments)
RECURSIVE JoinSlash(_)
JoinSlash(segs) ==
    IF segs = <<>> THEN <<>>
    ELSE IF Len(segs) = 1 THEN segs[1]
    ELSE segs[1] \o <<"/">> \o JoinSlash(Tail(segs))

\* '/'.join(page_url.split('/')[:-1]) + '/'
BaseUrl(page_url) ==
    LET segs == SplitSlash(page_url)
    IN  JoinSlash(SubSeq(segs, 1, Len(segs) - 1)) \o <<"/">>

\* the resolution without the lstrip('/') of lines 115 and 123
ResolveMut(match, page_url) ==
    IF ~StartsWithHttp(match)
    THEN BaseUrl(page_url) \o match
    ELSE match

\* lines 113-115 and 121-123 of extract_m3u8_url
Resolve(match, page_url) ==
    IF ~StartsWithHttp(match)
    THEN BaseUrl(page_url) \o LStripSlash(match)
    ELSE match

(***************************************************************************)
(* The two regular expressions of extract_m3u8_url.                        *)
(***************************************************************************)
\* least index >= i that holds no whitespace (Len(s)+1 when there is none)
SkipWs(s, i) == Min({j \in i..(Len(s) + 1) : j > Len(s) \/ ~IsWs(s[j])})

\* index of the first quote at or after i, 0 when there is none
NextQuote(s, i) ==
    LET S == {j \in i..Len(s) : s[j] = "q"}
    IN  IF S = {} THEN 0 ELSE Min(S)

\* the pattern without its \. : m3u8 somewhere in s[lo..hi]
HasDotM3u8Mut(s, lo, hi, ci) ==
    \E j \in lo..hi : s[j] \in (IF ci THEN {"m", "M"} ELSE {"m"})

\* \.m3u8 somewhere in s[lo..hi]; ci: under re.IGNORECASE
HasDotM3u8(s, lo, hi, ci) ==
    \E j \in lo..(hi - 1) :
        /\ s[j] = "."
        /\ s[j + 1] \in (IF ci THEN {"m", "M"} ELSE {"m"})

\* 'm3u8' in s
MentionsM3u8(s) == \E j \in 1..Len(s) : s[j] = "m"

\* ["\']([^"\']*\.m3u8[^"\']*)["\'] matched with its opening quote at o:
\* the group excludes quotes and a quote follows it, so it runs to the next
\* quote.  The value is the index of the closing quote, 0 when no match.
QuotedAt(s, o, ci) ==
    IF o > Len(s) \/ s[o] # "q" THEN 0
    ELSE LET c == NextQuote(s, o + 1)
         IN  IF c # 0 /\ HasDotM3u8(s, o + 1, c - 1, ci) THEN c ELSE 0

\* (?:src|url|link)\s*[:=]\s*["\'](...)["\'] with re.IGNORECASE, matched at
\* i: the index of the opening quote, 0 when there is no match at i
AssignAt(s, i) ==
    IF s[i] \notin {"k", "K"} THEN 0
    ELSE LET e == SkipWs(s, i + 1)
         IN  IF e > Len(s) \/ s[e] \notin {":", "="} THEN 0
             ELSE LET o == SkipWs(s, e + 1)
                  IN  IF QuotedAt(s, o, TRUE) # 0 THEN o ELSE 0

\* re.search of line 110: group 1 of the leftmost match, None without one
SearchAssign(s) ==
    LET S == {i \in 1..Len(s) : AssignAt(s, i) # 0}
    IN  IF S = {} THEN None
        ELSE LET o == AssignAt(s, Min(S))
             IN  SubSeq(s, o + 1, QuotedAt(s, o, TRUE) - 1)

\* re.search of line 118 (case-sensitive)
SearchQuoted(s) ==
    LET S == {o \in 1..Len(s) : QuotedAt(s, o, FALSE) # 0}
    IN  IF S = {} THEN None
        ELSE SubSeq(s, Min(S) + 1, QuotedAt(s, Min(S), FALSE) - 1)

(***************************************************************************)
(* A document is a sequence of blocks; a script block is a script element  *)
(* with the body as its string, any other block is markup outside scripts. *)
(***************************************************************************)
\* response.text
RECURSIVE RawText(_)
RawText(d) ==
    IF d = <<>> THEN <<"<">>
    ELSE <<"<">> \o Head(d).body \o RawText(Tail(d))

\* soup.find_all('script'), as the strings of the script elements
RECURSIVE Scripts(_)
Scripts(d) ==
    IF d = <<>> THEN <<>>
    ELSE IF Head(d).script THEN <<Head(d).body>> \o Scripts(Tail(d))
         ELSE Scripts(Tail(d))

\* the loop of lines 108-116: the match of the first script that passes the
\* test of line 109 and matches, None when the loop ends without a return
RECURSIVE ScanScripts(_)
ScanScripts(ss) ==
    IF ss = <<>> THEN None
    ELSE IF /\ Head(ss) # <<>>
            /\ MentionsM3u8(Head(ss))
            /\ SearchAssign(Head(ss)) # None
         THEN SearchAssign(Head(ss))
         ELSE ScanScripts(Tail(ss))

\* extract_m3u8_url after a successful fetch (lines 105-127)
Locate(d, page_url) ==
    IF ScanScripts(Scripts(d)) # None
    THEN Resolve(ScanScripts(Scripts(d)), page_url)
    ELSE IF SearchQuoted(RawText(d)) # None
         THEN Resolve(SearchQuoted(RawText(d)), page_url)
         ELSE None


(***************************************************************************)
(* extract_metadata.  A page is the sequence of its elements in document   *)
(* order, each with its tag and its text.                                  *)
(***************************************************************************)
UnknownTitle == <<"Unknown Title">>
UnknownAuthor == <<"Unknown Author">>
UnknownDuration == <<"Unknown Duration">>
UnknownViews == <<"Unknown Views">>
UnknownDate == <<"Unknown Date">>

\* re.compile('作者')
HasAuthorMarker(t) == \E i \in 1..Len(t) : t[i] = "A"

\* re.compile(r'\d{2}:\d{2}')
HasDuration(t) ==
    \E i \in 1..(Len(t) - 4) :
        /\ t[i] = "d" /\ t[i + 1] = "d" /\ t[i + 2] = ":"
        /\ t[i + 3] = "d" /\ t[i + 4] = "d"

\* re.compile(r'\d+\.?\d*k?'): one digit is a match
HasViews(t) == \E i \in 1..Len(t) : t[i] = "d"

\* re.compile(r'\d+天前|日期')
HasDate(t) ==
    \/ \E i \in 1..(Len(t) - 1) : t[i] = "d" /\ t[i + 1] = "t"
    \/ \E i \in 1..Len(t) : t[i] = "D"

\* soup.find(tag): index of the first element with that tag, 0 for None
FindTag(page, tag) ==
    LET S == {i \in 1..Len(page) : page[i].tag = tag}
    IN  IF S = {} THEN 0 ELSE Min(S)

\* author_elem.split('：')[-1]: the text after the last separator
AfterLastSep(t) ==
    LET S == {i \in 1..Len(t) : t[i] = "s"}
    IN  SubSeq(t, (CHOOSE i \in S : \A j \in S : j <= i) + 1, Len(t))

\* lines 46-49
AuthorOf(page) ==
    LET S == {i \in 1..Len(page) : HasAuthorMarker(page[i].text)}
    IN  IF S = {} THEN UnknownAuthor
        ELSE LET t == page[Min(S)].text
             IN  IF \E i \in 1..Len(t) : t[i] = "s"
                 THEN Strip(AfterLastSep(t))
                 ELSE Strip(t)

\* lines 51-54
DurationOf(page) ==
    LET S == {i \in 1..Len(page) : HasDuration(page[i].text)}
    IN  IF S = {} THEN UnknownDuration ELSE Strip(page[Min(S)].text)

\* lines 56-59
ViewsOf(page) ==
    LET S == {i \in 1..Len(page) : HasViews(page[i].text)}
    IN  IF S = {} THEN UnknownViews ELSE Strip(page[Min(S)].text)

\* lines 61-64
DateOf(page) ==
    LET S == {i \in 1..Len(page) : HasDate(page[i].text)}
    IN  IF S = {} THEN UnknownDate ELSE Strip(page[Min(S)].text)

\* lines 43-44: soup.find('h1') or soup.find('title') or 'Unknown Title',
\* then title.text: the str 'Unknown Title' has no attribute text, so the
\* statement raises AttributeError when the page has neither element
TitleRaises(page) == FindTag(page, "h1") = 0 /\ FindTag(page, "title") = 0

TitleOf(page) ==
    IF FindTag(page, "h1") # 0 THEN Strip(page[FindTag(page, "h1")].text)
    ELSE Strip(page[FindTag(page, "title")].text)

\* extract_metadata: NoneRow stands for the None of the except branch
extract_metadata(resp, page_url) ==
    IF resp.status # "ok" THEN NoneRow
    ELSE IF TitleRaises(resp.text) THEN NoneRow
    ELSE [title |-> TitleOf(resp.text),
          author |-> AuthorOf(resp.text),
          duration |-> DurationOf(resp.text),
          views |-> ViewsOf(resp.text),
          date |-> DateOf(resp.text),
          page_url |-> page_url]

\* extract_m3u8_url: None on a failed fetch and when nothing matches
extract_m3u8_url(resp, page_url) ==
    IF resp.status # "ok" THEN None ELSE Locate(resp.text, page_url)

(***************************************************************************)
(* transcribe_and_translate.                                               *)
(***************************************************************************)
\* str.split(): the maximal runs of non-whitespace characters
RECURSIVE SplitAcc(_, _, _)
SplitAcc(s, cur, acc) ==
    IF s = <<>> THEN (IF cur = <<>> THEN acc ELSE Append(acc, cur))
    ELSE IF IsWs(Head(s))
         THEN SplitAcc(Tail(s), <<>>, IF cur = <<>> THEN acc ELSE Append(acc, cur))
         ELSE SplitAcc(Tail(s), Append(cur, Head(s)), acc)

\* str.split(' ') on a text without tokens gives one empty token
SplitMut(s) ==
    IF SplitAcc(s, <<>>, <<>>) = <<>> THEN << <<>> >> ELSE SplitAcc(s, <<>>, <<>>)

Split(s) == SplitAcc(s, <<>>, <<>>)

\* translator.translate: the translation collaborator, a fixed mapping of
\* the source characters that keeps whitespace
TranslateChar(c) == IF c = "w" THEN "W" ELSE c

Translate(s) == [i \in 1..Len(s) |-> TranslateChar(s[i])]

\* the call of transcribe_and_translate that raises: none, whisper
\* (load_model or transcribe, lines 160-161), the translation of the whole
\* text (line 165), the translation of token i (line 174)
NoFault == [kind |-> "none"]
WhisperFault == [kind |-> "whisper"]
TextFault == [kind |-> "text"]
TokenFault(i) == [kind |-> "token", index |-> i]

\* the seconds of one caption (lines 170 and 173)
UnitSeconds == 2

\* the caption list with enumerate(words, 1)
CaptionsMut(words) ==
    [i \in 1..Len(words) |->
        [start |-> i * UnitSeconds,
         end |-> i * UnitSeconds + UnitSeconds,
         text |-> Translate(words[i])]]

\* lines 167-175: the caption list of all the words
Captions(words) ==
    [i \in 1..Len(words) |->
        [start |-> (i - 1) * UnitSeconds,
         end |-> (i - 1) * UnitSeconds + UnitSeconds,
         text |-> Translate(words[i])]]

\* the function returning the captions built before a token's translation
\* raised
TranscribeResultMut(text, fault) ==
    IF fault = NoFault
    THEN [captions |-> Captions(Split(text)),
          transcribed_text |-> text,
          translated_text |-> Translate(text)]
    ELSE IF fault.kind = "token"
    THEN [captions |-> SubSeq(Captions(Split(text)), 1, fault.index - 1),
          transcribed_text |-> text,
          translated_text |-> Translate(text)]
    ELSE [captions |-> <<>>, transcribed_text |-> <<>>, translated_text |-> <<>>]

\* the (captions, transcribed_text, translated_text) the function returns
TranscribeResult(text, fault) ==
    IF fault = NoFault
    THEN [captions |-> Captions(Split(text)),
          transcribed_text |-> text,
          translated_text |-> Translate(text)]
    ELSE [captions |-> <<>>, transcribed_text |-> <<>>, translated_text |-> <<>>]


(***************************************************************************)
(* The inputs of a run: the URL typed, the responses of the two fetches,   *)
(* the outcome of the two ffmpeg processes, the text the transcription     *)
(* recognises and the call of the transcription stage that raises.         *)
(***************************************************************************)
SeqsUpTo(S, n) == UNION {[1..k -> S] : k \in 0..n}

Url1 == <<"h", ":", "/", "/", "x", "/", "d", "/", "p">>
Url2 == <<"h", ":", "/", "/", "x", "/", "p">>
EmptyUrl == <<>>
Urls == {Url1, Url2, EmptyUrl}

\* quoted strings a page can hold
Rel(n) == <<n, ".", "m">>
Slashed(n) == <<"/", "/", n, ".", "m">>
Upper(n) == <<n, ".", "M">>
Http(n) == <<"h", ":", "/", "/", n, ".", "m">>
OtherScheme(n) == <<"f", ":", "/", "/", n, ".", "m">>
HttpLetters(n) == <<"h", n, ".", "m">>
NoDot(n) == <<n, "m">>

Quoted(p) == <<"q">> \o p \o <<"q">>
Assign(p) == <<"k", "=">> \o Quoted(p)
AssignSpaced(p) == <<"K", " ", ":", " ">> \o Quoted(p)

ScriptBodies ==
    { <<>>,
      <<"m">>,
      Assign(Rel("a")),
      Assign(Rel("b")),
      AssignSpaced(Slashed("a")),
      Assign(Http("a")),
      Assign(Upper("a")),
      <<"m", " ">> \o Assign(Upper("b")),
      Assign(OtherScheme("a")),
      Assign(HttpLetters("a")),
      Assign(<<"a">>),
      Assign(NoDot("a")),
      Quoted(Rel("c")) }

MarkupBodies ==
    { <<"a">>, Quoted(Rel("c")), Quoted(Upper("c")), Quoted(Http("c")), <<"q">> }

Blocks ==
    [script : {TRUE}, body : ScriptBodies] \cup [script : {FALSE}, body : MarkupBodies]

Docs == SeqsUpTo(Blocks, MaxBlocks)

\* the documents of the runs of the whole script: fewer kinds of block
RunBlocks ==
    { [script |-> TRUE, body |-> <<"m">>],
      [script |-> TRUE, body |-> Assign(Rel("a"))],
      [script |-> TRUE, body |-> Assign(NoDot("a"))],
      [script |-> TRUE, body |-> <<"m", " ">> \o Assign(Upper("b"))],
      [script |-> FALSE, body |-> <<"a">>],
      [script |-> FALSE, body |-> Quoted(Upper("c"))] }

RunDocs == SeqsUpTo(RunBlocks, MaxBlocks)

NoResponse == [status |-> "none"]
FetchError == [status |-> "error"]
AllM3u8Responses == {FetchError} \cup [status : {"ok"}, text : Docs]
M3u8Responses == {FetchError} \cup [status : {"ok"}, text : RunDocs]

\* pages given to extract_metadata
N(tag, text) == [tag |-> tag, text |-> text]

PageFull ==
    << N("title", <<"y">>),
       N("h1", <<" ", "x", " ">>),
       N("p", <<"A", "s", " ", "n">>),
       N("p", <<"d", "d", ":", "d", "d">>),
       N("p", <<"d", "t">>) >>
PageTitleOnly == << N("title", <<"y">>) >>
PageBare == << N("p", <<"x">>) >>
PageNoTitle == << N("p", <<"A", "n">>), N("p", <<"d", "k">>), N("p", <<"D">>) >>
PageEmpty == <<>>

Pages == {PageFull, PageTitleOnly, PageBare, PageNoTitle, PageEmpty}
MetaResponses == {FetchError} \cup [status : {"ok"}, text : Pages]

\* subprocess.run(['ffmpeg', ...], check=True): exit status 0 with the output
\* written; a non-zero exit status (CalledProcessError) with no output file
\* or with the output file left behind; no ffmpeg executable
FfmpegOutcomes == {"ok", "failed", "failed_output_left", "not_found"}

Texts == SeqsUpTo({"w", " "}, MaxTextLen)

Faults(text) ==
    {NoFault, WhisperFault, TextFault}
    \cup {TokenFault(i) : i \in 1..Len(Split(text))}

AudioName == "temp_audio.mp3"
VideoName == "video.mp4"

NoDf == [ok |-> FALSE]

(***************************************************************************)
(* The stages of a run, in the order of the code.                          *)
(***************************************************************************)
StageOrder ==
    << "extract_metadata", "save_metadata_to_db", "load_db", "extract_m3u8_url",
       "extract_audio_segment", "transcribe_and_translate", "download_video" >>

StageIndex(st) == CHOOSE i \in 1..Len(StageOrder) : StageOrder[i] = st

Init ==
    /\ pc = "idle"
    /\ video_url = EmptyUrl
    /\ meta_resp = NoResponse
    /\ metadata = NoneRow
    /\ db = <<>>
    /\ df = NoDf
    /\ selected_row = NoneRow
    /\ m3u8_resp = NoResponse
    /\ m3u8_url = None
    /\ audio_file = "None"
    /\ files = {}
    /\ heard = <<>>
    /\ tr_fault = NoFault
    /\ captions = <<>>
    /\ transcribed_text = <<>>
    /\ translated_text = <<>>
    /\ shown = <<>>
    /\ reports = {}
    /\ trace = <<>>
    /\ failed = {}
    /\ runs = 0

\* a rerun of the script starts with no local of the previous run
FreshLocals ==
    /\ meta_resp' = NoResponse
    /\ metadata' = NoneRow
    /\ df' = NoDf
    /\ selected_row' = NoneRow
    /\ m3u8_resp' = NoResponse
    /\ m3u8_url' = None
    /\ audio_file' = "None"
    /\ heard' = <<>>
    /\ tr_fault' = NoFault
    /\ captions' = <<>>
    /\ transcribed_text' = <<>>
    /\ translated_text' = <<>>
    /\ shown' = <<>>
    /\ trace' = <<>>
    /\ failed' = {}

\* lines 212, 276-277: a rerun in which st.button("Load Video") is False
RerunNoClick ==
    /\ pc = "idle"
    /\ FreshLocals
    /\ reports' = {"info: Enter a video URL to get started."}
    /\ UNCHANGED <<pc, video_url, db, files, runs>>

\* lines 212-213, 274-275: the button is True; an empty URL ends the run
ClickLoadVideo ==
    /\ pc = "idle"
    /\ runs < MaxRuns
    /\ runs' = runs + 1
    /\ \E u \in Urls :
        /\ video_url' = u
        /\ IF u # EmptyUrl
           THEN pc' = "extract_metadata" /\ reports' = {}
           ELSE /\ pc' = "idle"
                /\ reports' = {"warning: Please enter a valid video URL."}
    /\ FreshLocals
    /\ UNCHANGED <<db, files>>

\* line 216 / 272: the stage after extract_metadata
AfterMetadata(md) == IF md # NoneRow THEN "save_metadata_to_db" ELSE "idle"

\* lines 215-216, 272-273 with extract_metadata (lines 31-76)
ExtractMetadata ==
    /\ pc = "extract_metadata"
    /\ \E r \in MetaResponses :
        /\ meta_resp' = r
        /\ metadata' = extract_metadata(r, video_url)
    /\ trace' = Append(trace, "extract_metadata")
    /\ pc' = AfterMetadata(metadata')
    /\ IF metadata' = NoneRow
       THEN /\ reports' = reports \cup
                    { "error: Error scraping metadata",
                      "error: Failed to scrape metadata. Please check the URL." }
            /\ failed' = failed \cup {"extract_metadata"}
       ELSE UNCHANGED <<reports, failed>>
    /\ UNCHANGED <<video_url, db, df, selected_row, m3u8_resp, m3u8_url,
                   audio_file, files, heard, tr_fault, captions,
                   transcribed_text, translated_text, shown, runs>>

\* save_metadata_to_db (lines 78-85): INSERT of one row
InsertRow(rows, md) == Append(rows, md)

\* line 217
SaveMetadata ==
    /\ pc = "save_metadata_to_db"
    /\ db' = InsertRow(db, metadata)
    /\ trace' = Append(trace, "save_metadata_to_db")
    /\ pc' = "load_db"
    /\ UNCHANGED <<video_url, meta_resp, metadata, df, selected_row, m3u8_resp,
                   m3u8_url, audio_file, files, heard, tr_fault, captions,
                   transcribed_text, translated_text, shown, reports, failed,
                   runs>>

\* df.iloc[0]
LastRowMut(rows) == rows[1]

\* df.iloc[-1]
LastRow(rows) == rows[Len(rows)]

\* lines 218-234 with load_db (lines 87-94): the query returns the rows in
\* insertion order, or raises and load_db returns None
LoadDb ==
    /\ pc = "load_db"
    /\ trace' = Append(trace, "load_db")
    /\ \E ok \in BOOLEAN :
        /\ df' = IF ok THEN [ok |-> TRUE, rows |-> db] ELSE NoDf
        /\ IF ok /\ db # <<>>
           THEN /\ selected_row' = LastRow(db)
                /\ reports' = reports \cup {"success: Metadata loaded successfully!"}
                /\ pc' = "extract_m3u8_url"
                /\ UNCHANGED failed
           ELSE /\ selected_row' = selected_row
                /\ reports' = IF ok THEN reports
                              ELSE reports \cup {"error: Error loading DB"}
                /\ failed' = IF ok THEN failed ELSE failed \cup {"load_db"}
                /\ pc' = "idle"
    /\ UNCHANGED <<video_url, meta_resp, metadata, db, m3u8_resp, m3u8_url,
                   audio_file, files, heard, tr_fault, captions,
                   transcribed_text, translated_text, shown, runs>>

\* the run going on without the test of line 237
AfterLocateMut(u) == "extract_audio_segment"

\* line 237 / 270: the stage after extract_m3u8_url ('if m3u8_url:')
AfterLocate(u) == IF u # None /\ u # <<>> THEN "extract_audio_segment" ELSE "idle"

\* lines 234-239, 270-271 with extract_m3u8_url (lines 96-130)
ExtractM3u8 ==
    /\ pc = "extract_m3u8_url"
    /\ \E r \in M3u8Responses :
        /\ m3u8_resp' = r
        /\ m3u8_url' = extract_m3u8_url(r, selected_row.page_url)
        /\ reports' =
             IF m3u8_url' # None THEN reports
             ELSE reports
                  \cup {"error: Failed to extract stream URL. Please check the page manually."}
                  \cup (IF r.status = "ok"
                        THEN {"warning: Could not extract m3u8 URL."}
                        ELSE {"error: Error extracting m3u8"})
    /\ trace' = Append(trace, "extract_m3u8_url")
    /\ failed' = IF m3u8_url' = None THEN failed \cup {"extract_m3u8_url"} ELSE failed
    /\ pc' = AfterLocate(m3u8_url')
    /\ UNCHANGED <<video_url, meta_resp, metadata, db, df, selected_row,
                   audio_file, files, heard, tr_fault, captions,
                   transcribed_text, translated_text, shown, runs>>


\* subprocess.run of lines 144 and 192: the files on disk afterwards
FilesAfterFfmpeg(fs, outcome, name) ==
    IF outcome \in {"ok", "failed_output_left"} THEN fs \cup {name} ELSE fs

\* the except branches of lines 150-155 and 198-203
FfmpegReport(outcome, what) ==
    IF outcome = "ok" THEN {}
    ELSE IF outcome = "not_found"
         THEN {"error: FFmpeg not found. Please install FFmpeg."}
         ELSE {what}

\* line 243: the stage after extract_audio_segment ('if audio_file:')
AfterAudio(f) == IF f # "None" THEN "transcribe_and_translate" ELSE "download_button"

\* lines 241-243 with extract_audio_segment (lines 132-155)
ExtractAudio ==
    /\ pc = "extract_audio_segment"
    /\ \E o \in FfmpegOutcomes :
        /\ files' = FilesAfterFfmpeg(files, o, AudioName)
        /\ audio_file' = IF o = "ok" THEN AudioName ELSE "None"
        /\ reports' = reports \cup FfmpegReport(o, "error: Audio extraction failed")
        /\ failed' = IF o = "ok" THEN failed
                     ELSE failed \cup {"extract_audio_segment"}
    /\ trace' = Append(trace, "extract_audio_segment")
    /\ pc' = AfterAudio(audio_file')
    /\ m3u8_resp' = NoResponse
    /\ UNCHANGED <<video_url, meta_resp, metadata, db, df, selected_row,
                   m3u8_url, heard, tr_fault, captions, transcribed_text,
                   translated_text, shown, runs>>

\* line 244 with transcribe_and_translate (lines 157-179)
Transcribe ==
    /\ pc = "transcribe_and_translate"
    /\ \E t \in Texts : \E f \in Faults(t) :
        /\ f = WhisperFault => t = <<>>
        /\ heard' = t
        /\ tr_fault' = f
        /\ captions' = TranscribeResult(t, f).captions
        /\ transcribed_text' = TranscribeResult(t, f).transcribed_text
        /\ translated_text' = TranscribeResult(t, f).translated_text
        /\ reports' = IF f = NoFault THEN reports
                      ELSE reports \cup {"error: Transcription/Translation error"}
        /\ failed' = IF f = NoFault THEN failed
                     ELSE failed \cup {"transcribe_and_translate"}
    /\ trace' = Append(trace, "transcribe_and_translate")
    /\ pc' = "display"
    /\ UNCHANGED <<video_url, meta_resp, metadata, db, df, selected_row,
                   m3u8_resp, m3u8_url, audio_file, files, shown, runs>>

\* os.unlink
Unlink(fs, name) == fs \ {name}

\* lines 245-255
DisplayCaptions ==
    /\ pc = "display"
    /\ files' = Unlink(files, audio_file)
    /\ IF captions # <<>>
       THEN /\ shown' = captions
            /\ UNCHANGED reports
       ELSE /\ reports' = reports \cup {"warning: No captions generated."}
            /\ UNCHANGED shown
    /\ pc' = "download_button"
    /\ UNCHANGED <<video_url, meta_resp, metadata, db, df, selected_row,
                   m3u8_resp, m3u8_url, audio_file, heard, tr_fault, captions,
                   transcribed_text, translated_text, trace, failed, runs>>

\* line 257: the value st.button("Download Video ...") returns is an input
\* of the run (the widget library, not this script, decides it); the locals
\* of transcribe_and_translate are gone by now
DownloadButton ==
    /\ pc = "download_button"
    /\ \E clicked \in BOOLEAN :
        pc' = IF clicked THEN "download_video" ELSE "idle"
    /\ heard' = <<>>
    /\ tr_fault' = NoFault
    /\ UNCHANGED <<video_url, meta_resp, metadata, db, df, selected_row,
                   m3u8_resp, m3u8_url, audio_file, files, captions,
                   transcribed_text, translated_text, shown, reports, trace,
                   failed, runs>>

\* lines 258-260 with download_video (lines 181-203)
DownloadVideo ==
    /\ pc = "download_video"
    /\ \E o \in FfmpegOutcomes :
        /\ files' = FilesAfterFfmpeg(files, o, VideoName)
        /\ reports' = reports \cup FfmpegReport(o, "error: Download failed")
        /\ failed' = IF o = "ok" THEN failed ELSE failed \cup {"download_video"}
        /\ pc' = IF o = "ok" THEN "serve_download" ELSE "idle"
    /\ trace' = Append(trace, "download_video")
    /\ UNCHANGED <<video_url, meta_resp, metadata, db, df, selected_row,
                   m3u8_resp, m3u8_url, audio_file, heard, tr_fault, captions,
                   transcribed_text, translated_text, shown, runs>>

\* lines 261-269: read the file, offer it, delete it
ServeDownload ==
    /\ pc = "serve_download"
    /\ files' = Unlink(files, VideoName)
    /\ reports' = reports \cup {"download_button: Download Recorded Video"}
    /\ pc' = "idle"
    /\ UNCHANGED <<video_url, meta_resp, metadata, db, df, selected_row,
                   m3u8_resp, m3u8_url, audio_file, heard, tr_fault, captions,
                   transcribed_text, translated_text, shown, trace, failed,
                   runs>>

Next ==
    \/ RerunNoClick
    \/ ClickLoadVideo
    \/ ExtractMetadata
    \/ SaveMetadata
    \/ LoadDb
    \/ ExtractM3u8
    \/ ExtractAudio
    \/ Transcribe
    \/ DisplayCaptions
    \/ DownloadButton
    \/ DownloadVideo
    \/ ServeDownload

Spec == Init /\ [][Next]_vars

(***************************************************************************)
(* extract_m3u8_url on its own: any response, any page URL, one call.      *)
(***************************************************************************)
InitLocate ==
    /\ pc = "call extract_m3u8_url"
    /\ video_url \in {Url1, Url2}
    /\ m3u8_resp \in AllM3u8Responses
    /\ meta_resp = NoResponse
    /\ metadata = NoneRow
    /\ db = <<>>
    /\ df = NoDf
    /\ selected_row = NoneRow
    /\ m3u8_url = None
    /\ audio_file = "None"
    /\ files = {}
    /\ heard = <<>>
    /\ tr_fault = NoFault
    /\ captions = <<>>
    /\ transcribed_text = <<>>
    /\ translated_text = <<>>
    /\ shown = <<>>
    /\ reports = {}
    /\ trace = <<>>
    /\ failed = {}
    /\ runs = 0

LocateCall ==
    /\ pc = "call extract_m3u8_url"
    /\ m3u8_url' = extract_m3u8_url(m3u8_resp, video_url)
    /\ pc' = "return extract_m3u8_url"
    /\ UNCHANGED <<video_url, meta_resp, metadata, db, df, selected_row,
                   m3u8_resp, audio_file, files, heard, tr_fault, captions,
                   transcribed_text, translated_text, shown, reports, trace,
                   failed, runs>>

NextLocate == LocateCall

SpecLocate == InitLocate /\ [][NextLocate]_vars


(***************************************************************************)
(* Vocabulary of the properties.                                           *)
(***************************************************************************)
ErrorOf(st) ==
    IF st = "extract_metadata"
    THEN {"error: Error scraping metadata"}
    ELSE IF st = "load_db" THEN {"error: Error loading DB"}
    ELSE IF st = "extract_m3u8_url"
    THEN {"error: Failed to extract stream URL. Please check the page manually."}
    ELSE IF st = "extract_audio_segment"
    THEN {"error: Audio extraction failed",
          "error: FFmpeg not found. Please install FFmpeg."}
    ELSE IF st = "transcribe_and_translate"
    THEN {"error: Transcription/Translation error"}
    ELSE IF st = "download_video"
    THEN {"error: Download failed",
          "error: FFmpeg not found. Please install FFmpeg."}
    ELSE {}

\* the stages the run has invoked
Invoked == {trace[i] : i \in 1..Len(trace)}

\* the stages of the run were invoked in the order of StageOrder
InStageOrder ==
    \A i, j \in 1..Len(trace) :
        i < j => StageIndex(trace[i]) < StageIndex(trace[j])

\* every failed stage of the run has been reported as an error
FailuresReported == \A st \in failed : ErrorOf(st) \cap reports # {}

\* the tokens of a text: the maximal runs of characters that are not
\* whitespace, located by their first and last index
TokenStarts(s) == {i \in 1..Len(s) : ~IsWs(s[i]) /\ (i = 1 \/ IsWs(s[i - 1]))}

TokenCount(s) == Cardinality(TokenStarts(s))

Token(s, n) ==
    LET b == CHOOSE i \in TokenStarts(s) :
                 Cardinality({j \in TokenStarts(s) : j <= i}) = n
        e == CHOOSE k \in b..Len(s) :
                 /\ \A j \in b..k : ~IsWs(s[j])
                 /\ (k = Len(s) \/ IsWs(s[k + 1]))
    IN  SubSeq(s, b, e)

\* the complete caption list of a text, two seconds a token
FullCaptions(s) ==
    [n \in 1..TokenCount(s) |->
        [start |-> 2 * (n - 1), end |-> 2 * n, text |-> Translate(Token(s, n))]]

\* the string the code takes from the document: the script match when a
\* script yields one, else the match of the whole-document scan
MatchedString(d) ==
    IF ScanScripts(Scripts(d)) # None THEN ScanScripts(Scripts(d))
    ELSE SearchQuoted(RawText(d))

\* a scheme prefix: the letters of a scheme followed by ://
HasScheme(u) ==
    /\ Len(u) >= 4
    /\ u[1] \in {"h", "f"}
    /\ u[2] = ":" /\ u[3] = "/" /\ u[4] = "/"

\* the page URL up to and including its last slash (a lone slash when it
\* has none), followed by the path without its leading slashes
ResolvedAgainst(path, page_url) ==
    LET S == {i \in 1..Len(page_url) : page_url[i] = "/"}
        dir == IF S = {} THEN <<"/">>
               ELSE SubSeq(page_url, 1, CHOOSE i \in S : \A j \in S : j <= i)
        k == CHOOSE i \in 1..(Len(path) + 1) :
                 /\ \A j \in 1..(i - 1) : path[j] = "/"
                 /\ (i > Len(path) \/ path[i] # "/")
    IN  dir \o SubSeq(path, k, Len(path))

\* ".m3u8" is a substring of the text: in lower case, in any letter case
HasLowerDotM3u8(s) == \E i \in 1..(Len(s) - 1) : s[i] = "." /\ s[i + 1] = "m"
HasAnyCaseDotM3u8(s) ==
    \E i \in 1..(Len(s) - 1) : s[i] = "." /\ s[i + 1] \in {"m", "M"}

\* the run skipped audio acquisition, captions and download, reported the
\* missing stream and is over
StreamMissingHandled ==
    /\ m3u8_url = None
    /\ "error: Failed to extract stream URL. Please check the page manually."
           \in reports
    /\ "warning: Could not extract m3u8 URL." \in reports
    /\ pc = "idle"
    /\ trace # <<>>
    /\ trace[Len(trace)] = "extract_m3u8_url"
    /\ Invoked \cap {"extract_audio_segment", "transcribe_and_translate",
                     "download_video"} = {}


(***************************************************************************)
(* C1 as claimed: the stages run in the fixed order, a stage that failed   *)
(* is the last stage the run invoked (no later stage is invoked after it), *)
(* and its failure is reported.                                            *)
(***************************************************************************)
C1_FailedStageIsLast ==
    /\ InStageOrder
    /\ FailuresReported
    /\ \A i \in 1..Len(trace) : trace[i] \in failed => i = Len(trace)

(***************************************************************************)
(* C1 amended: the stages run in the fixed order and every failure is      *)
(* reported; a failure of metadata extraction, of the load of the store,   *)
(* of stream location or of the download is the last stage of the run and  *)
(* the run is over; a failure of audio acquisition skips the              *)
(* transcription; after a failed audio acquisition or transcription the    *)
(* only stage still invoked is the optional download; a run that is not    *)
(* over can always take its next step.                                     *)
(***************************************************************************)
C1_StagesAbort ==
    /\ InStageOrder
    /\ FailuresReported
    /\ \A i \in 1..Len(trace) :
        trace[i] \in failed
              \cap {"extract_metadata", "load_db", "extract_m3u8_url", "download_video"}
            => i = Len(trace) /\ pc = "idle"
    /\ "extract_audio_segment" \in failed => "transcribe_and_translate" \notin Invoked
    /\ \A i, j \in 1..Len(trace) :
        (i < j /\ trace[i] \in failed) => trace[j] = "download_video"
    /\ pc # "idle" => ENABLED Next

\* the optional download ran after the audio acquisition of the run failed
C1_Witness ==
    /\ "extract_audio_segment" \in failed
    /\ trace[Len(trace)] = "download_video"
    /\ pc = "idle"

(***************************************************************************)
(* C2 as claimed: when a run is over, no temporary audio or video file     *)
(* remains on disk, whichever stage succeeded or failed.                   *)
(***************************************************************************)
C2_NoTempFileRemains == pc = "idle" => files = {}

(***************************************************************************)
(* C3: when no call of the transcription stage fails, the captions are     *)
(* one unit per whitespace-separated token of the text, in token order;    *)
(* unit i (from 0) starts at 2i, ends at 2i+2 and holds the translation of *)
(* token i; the units are contiguous and strictly increasing.              *)
(***************************************************************************)
C3_CaptionUnits ==
    (pc = "display" /\ tr_fault = NoFault) =>
        /\ Len(captions) = TokenCount(heard)
        /\ \A i \in 1..Len(captions) :
            /\ captions[i].start = 2 * (i - 1)
            /\ captions[i].end = 2 * (i - 1) + 2
            /\ captions[i].text = Translate(Token(heard, i))
        /\ \A i \in 1..(Len(captions) - 1) :
            /\ captions[i].end = captions[i + 1].start
            /\ captions[i].start < captions[i + 1].start

\* a text of two different tokens was captioned
C3_Witness ==
    /\ pc = "display"
    /\ tr_fault = NoFault
    /\ Len(captions) = 2
    /\ captions[1].text # captions[2].text

(***************************************************************************)
(* C4: when the translation of a token fails, the stage fails and is       *)
(* reported, and the captions the caller receives and the captions it      *)
(* displays are the complete list of the text or no captions at all.       *)
(***************************************************************************)
C4_AllOrNothing ==
    pc \in {"display", "download_button"} =>
        /\ captions \in {<<>>, FullCaptions(heard)}
        /\ shown \in {<<>>, FullCaptions(heard)}
        /\ tr_fault.kind = "token" =>
            /\ captions = <<>>
            /\ shown = <<>>
            /\ "transcribe_and_translate" \in failed
            /\ "error: Transcription/Translation error" \in reports

\* the translation of the second token failed after the first succeeded,
\* and the display step has run
C4_Witness ==
    /\ pc = "download_button"
    /\ tr_fault = TokenFault(2)
    /\ "warning: No captions generated." \in reports

\* a page with no h1 and no title element, and no text that holds the author
\* marker, a digit or the date-label marker
LacksEveryPattern(page) ==
    \A i \in 1..Len(page) :
        /\ page[i].tag \notin {"h1", "title"}
        /\ \A j \in 1..Len(page[i].text) : page[i].text[j] \notin {"A", "d", "D"}

(***************************************************************************)
(* C5 as claimed: for a fetched page that lacks every recognized field     *)
(* pattern, extract_metadata returns the record of the five sentinel       *)
(* values and reports no error.                                            *)
(***************************************************************************)
C5_AllSentinelRecord ==
    (meta_resp.status = "ok" /\ LacksEveryPattern(meta_resp.text)) =>
        /\ metadata = [title |-> UnknownTitle,
                       author |-> UnknownAuthor,
                       duration |-> UnknownDuration,
                       views |-> UnknownViews,
                       date |-> UnknownDate,
                       page_url |-> video_url]
        /\ "error: Error scraping metadata" \notin reports

(***************************************************************************)
(* C6 as claimed: a matched string without a scheme prefix is returned     *)
(* resolved against the directory of the page URL, a matched string with   *)
(* a scheme prefix is returned unchanged, for script matches and for       *)
(* matches of the whole-document scan alike.                               *)
(***************************************************************************)
C6_ResolveBySchemePrefix ==
    (pc = "return extract_m3u8_url" /\ m3u8_resp.status = "ok"
        /\ MatchedString(m3u8_resp.text) # None) =>
        LET match == MatchedString(m3u8_resp.text)
        IN  m3u8_url = IF HasScheme(match) THEN match
                       ELSE ResolvedAgainst(match, video_url)

(***************************************************************************)
(* C6 amended: a matched string that does not start with the letters      *)
(* "http" is returned resolved against the directory of the page URL (the  *)
(* page URL up to its last slash, then the match without its leading       *)
(* slashes); a matched string that starts with "http" is returned          *)
(* unchanged; for script matches and whole-document matches alike.         *)
(***************************************************************************)
C6_ResolveByHttpPrefix ==
    (pc = "return extract_m3u8_url" /\ m3u8_resp.status = "ok"
        /\ MatchedString(m3u8_resp.text) # None) =>
        LET match == MatchedString(m3u8_resp.text)
        IN  m3u8_url = IF match[1] = "h" THEN match
                       ELSE ResolvedAgainst(match, video_url)

\* a match with leading slashes was resolved against a page URL in a
\* directory
C6_Witness ==
    /\ pc = "return extract_m3u8_url"
    /\ m3u8_resp.status = "ok"
    /\ MatchedString(m3u8_resp.text) # None
    /\ MatchedString(m3u8_resp.text)[1] = "/"
    /\ video_url = Url1
    /\ m3u8_url # None

(***************************************************************************)
(* C7 as claimed: for a fetched page with no ".m3u8" substring, no stream  *)
(* location is returned, this is reported, the run invokes neither audio   *)
(* acquisition nor captions nor download, and it is over.                  *)
(***************************************************************************)
C7_NotFoundWithoutM3u8 ==
    (pc \in {"idle", "extract_audio_segment"} /\ m3u8_resp.status = "ok"
        /\ ~HasLowerDotM3u8(RawText(m3u8_resp.text))) => StreamMissingHandled

(***************************************************************************)
(* C7 amended: for a fetched page with no ".m3u8" substring in any letter  *)
(* case, no stream location is returned, this is reported, the run invokes *)
(* neither audio acquisition nor captions nor download, and it is over.    *)
(***************************************************************************)
C7_NotFoundWithoutAnyCaseM3u8 ==
    (pc \in {"idle", "extract_audio_segment"} /\ m3u8_resp.status = "ok"
        /\ ~HasAnyCaseDotM3u8(RawText(m3u8_resp.text))) => StreamMissingHandled

\* a page that names m3u8 in a quoted string, without the dot, was scanned
C7_Witness ==
    /\ pc = "idle"
    /\ m3u8_resp.status = "ok"
    /\ ~HasAnyCaseDotM3u8(RawText(m3u8_resp.text))
    /\ \E i \in 1..Len(m3u8_resp.text) : m3u8_resp.text[i].body = Assign(NoDot("a"))
    /\ m3u8_url = None

C9_FirstMatchingScript ==
    (pc = "return extract_m3u8_url" /\ m3u8_resp.status = "ok") =>
        LET ss == Scripts(m3u8_resp.text)
            S == {i \in 1..Len(ss) : SearchAssign(ss[i]) # None}
            whole == SearchQuoted(RawText(m3u8_resp.text))
        IN  m3u8_url =
                IF S # {} THEN Resolve(SearchAssign(ss[Min(S)]), video_url)
                ELSE IF whole # None THEN Resolve(whole, video_url)
                ELSE None

(***************************************************************************)
(* C10, one step: the store changes only by the append of the record of a run whose  *)
(* metadata extraction succeeded, once per such run; the URL of that       *)
(* record is the URL entered for the run; the row the run selects is the   *)
(* last row of the store and carries the URL entered for the run.          *)
(***************************************************************************)
C10_StoreStep ==
    /\ db' # db =>
        /\ pc = "save_metadata_to_db"
        /\ metadata # NoneRow
        /\ Len(db') = Len(db) + 1
        /\ SubSeq(db', 1, Len(db)) = db
        /\ db'[Len(db')] = metadata
        /\ metadata.page_url = video_url
    /\ pc = "extract_metadata" =>
        (pc' = "save_metadata_to_db" <=> metadata' # NoneRow)
    /\ pc = "save_metadata_to_db" => db' # db
    /\ pc' = "save_metadata_to_db" => pc = "extract_metadata"
    /\ selected_row' # NoneRow =>
        /\ selected_row' = db'[Len(db')]
        /\ selected_row'.page_url = video_url'

\* C10: every step of a session is such a step
C10_StoreGrowsByOne == [][C10_StoreStep]_vars

\* the second run of a session selected its own record, of another URL
\* than the first
C10_Witness ==
    /\ Len(db) = 2
    /\ db[1].page_url # db[2].page_url
    /\ selected_row = db[2]

=============================================================================
